---- MODULE Spec2Model ----
(***************************************************************************)
(* Model of the JWT authentication service of                              *)
(* learning_tasks/auth/task_2_jwt_advanced.py (and the token verification  *)
(* of task_1_jwt_basics.py).                                               *)
(*                                                                         *)
(* A signed token is modelled by what jwt.encode puts into the compact     *)
(* string: the claims (sub, type, exp) and the key the HS256 signature was *)
(* computed with.  Two tokens are the same string iff they are the same    *)
(* record.  Time is counted in whole seconds, as python-jose stores "exp". *)
(***************************************************************************)
EXTENDS Integers, FiniteSets, Sequences, TLC

VARIABLES
    now,              \* datetime.utcnow(), in seconds
    fake_users_db,    \* the module-level user table
    token_blacklist,  \* the module-level blacklist set
    issued,           \* history: every token /login or /refresh has returned
    loggedOut,        \* history: issued tokens with which POST /logout succeeded
    last              \* the request being answered and its response, or Idle

vars == <<now, fake_users_db, token_blacklist, issued, loggedOut, last>>

----------------------------------------------------------------------------
(* Bounds of the model *)

\* how many distinct tokens the endpoints may mint, and how many of them may
\* be logged out
MaxIssued == 3
MaxLogouts == 1

\* when the minting functions are examined on their own: the largest
\* expires_delta passed, in seconds either way, and the last second at which
\* a call is made
MaxDelta == 2
MaxMintTime == 2

----------------------------------------------------------------------------
(* Configuration *)

SECRET_KEY == "your-secret-key-for-access-tokens"
REFRESH_SECRET_KEY == "your-secret-key-for-refresh-tokens"
ACCESS_TOKEN_EXPIRE_MINUTES == 15
REFRESH_TOKEN_EXPIRE_DAYS == 7

\* a key that is neither of the service's secrets (a forger's key)
OTHER_KEY == "some-other-key"

\* Python's None, for an absent claim, an absent user, an absent field
None == "None"

\* timedelta(...) as a number of seconds; an absent expires_delta is <<>>
NoDelta == <<>>
timedelta_minutes(m) == <<m * 60>>
timedelta_days(d) == <<d * 86400>>

\* mutant: only an absent expires_delta selects the default lifetime
Truthy_not_none(expires_delta) == expires_delta # NoDelta

\* truth value of an Optional[timedelta]: None and timedelta(0) are falsy
Truthy(expires_delta) == expires_delta # NoDelta /\ expires_delta[1] # 0

----------------------------------------------------------------------------
(* Enums and the seeded user table *)

ADMIN == "admin"
USER == "user"
GUEST == "guest"
UserRole == {ADMIN, USER, GUEST}

SecretHash == "$2b$12$EixZaYVK1fsbw1ZfbX3OXePaWxn96p36WQoeG6Lruj3vjPGga31lm"
OtherHash == "$2b$12$another-bcrypt-hash"

fake_users_db_seed ==
    [u \in {"admin", "john", "guest"} |->
        [username |-> u,
         email |-> CASE u = "admin" -> "admin@example.com"
                     [] u = "john" -> "john@example.com"
                     [] OTHER -> "guest@example.com",
         role |-> CASE u = "admin" -> ADMIN
                    [] u = "john" -> USER
                    [] OTHER -> GUEST,
         hashed_password |-> SecretHash,
         disabled |-> FALSE]]

\* User(**user): the record without the password hash
User(rec) == [username |-> rec.username, email |-> rec.email,
              role |-> rec.role, disabled |-> rec.disabled]

NoUser == [username |-> None, email |-> None, role |-> None, disabled |-> FALSE]

----------------------------------------------------------------------------
(* Passwords *)

\* pwd_context.verify: does the plain password hash to the stored hash
verify_password(plain_password, hashed_password) ==
    hashed_password = (IF plain_password = "secret" THEN SecretHash ELSE OtherHash)

\* mutant: the password is not verified
authenticate_user_any_password(db, username, password) ==
    IF username \notin DOMAIN db THEN None
    ELSE db[username].username

\* mutant: a username the table does not know is authenticated
authenticate_user_unknown_ok(db, username, password) ==
    IF username \notin DOMAIN db THEN username
    ELSE IF ~verify_password(password, db[username].hashed_password) THEN None
    ELSE db[username].username

\* mutant: a disabled user is not authenticated
authenticate_user_refuses_disabled(db, username, password) ==
    IF username \notin DOMAIN db THEN None
    ELSE IF ~verify_password(password, db[username].hashed_password) THEN None
    ELSE IF db[username].disabled THEN None
    ELSE db[username].username

\* returns the user's name, or None
authenticate_user(db, username, password) ==
    IF username \notin DOMAIN db THEN None
    ELSE IF ~verify_password(password, db[username].hashed_password) THEN None
    ELSE db[username].username

----------------------------------------------------------------------------
(* Tokens *)

\* jwt.encode(claims, key): the compact string carries the claims and a
\* signature under key
jwt_encode(sub, type, exp, key) ==
    [wf |-> TRUE, key |-> key, sub |-> sub, type |-> type, exp |-> exp]

\* a string that is not a three-part compact token
Malformed == [wf |-> FALSE, key |-> "", sub |-> None, type |-> None, exp |-> 0]

\* no token at all (a request without credentials, a response without token)
NoToken == [wf |-> FALSE, key |-> "absent", sub |-> None, type |-> None, exp |-> 0]

\* mutant: the claims carry no "type", as in the basic variant
create_access_token_untyped(sub, expires_delta, t) ==
    LET expire == IF Truthy(expires_delta) THEN t + expires_delta[1]
                  ELSE t + timedelta_minutes(15)[1]
    IN jwt_encode(sub, None, expire, SECRET_KEY)

create_access_token(sub, expires_delta, t) ==
    LET expire == IF Truthy(expires_delta) THEN t + expires_delta[1]
                  ELSE t + timedelta_minutes(15)[1]
    IN jwt_encode(sub, "access", expire, SECRET_KEY)

\* mutant: the refresh token is signed with the access secret
create_refresh_token_access_secret(sub, expires_delta, t) ==
    LET expire == IF Truthy(expires_delta) THEN t + expires_delta[1]
                  ELSE t + timedelta_days(7)[1]
    IN jwt_encode(sub, "refresh", expire, SECRET_KEY)

create_refresh_token(sub, expires_delta, t) ==
    LET expire == IF Truthy(expires_delta) THEN t + expires_delta[1]
                  ELSE t + timedelta_days(7)[1]
    IN jwt_encode(sub, "refresh", expire, REFRESH_SECRET_KEY)

\* mutant: a token is still accepted one second after its expiry
jwt_decode_leeway(token, key, t) ==
    IF ~token.wf THEN "MalformedToken"
    ELSE IF token.key # key THEN "BadSignature"
    ELSE IF token.exp + 1 < t THEN "Expired"
    ELSE "ok"

\* mutant: the signature is not verified
jwt_decode_unverified(token, key, t) ==
    IF ~token.wf THEN "MalformedToken"
    ELSE IF token.exp < t THEN "Expired"
    ELSE "ok"

\* jwt.decode(token, key, algorithms): "ok", or the reason it raises
\* JWTError.  The compact string is split first, then the signature is
\* verified, then the exp claim is validated (expired iff exp < now).
jwt_decode(token, key, t) ==
    IF ~token.wf THEN "MalformedToken"
    ELSE IF token.key # key THEN "BadSignature"
    ELSE IF token.exp < t THEN "Expired"
    ELSE "ok"

----------------------------------------------------------------------------
(* Responses *)

Response(status, detail, kind, user, access_token, refresh_token, listing) ==
    [status |-> status, detail |-> detail, kind |-> kind, user |-> user,
     access_token |-> access_token, refresh_token |-> refresh_token,
     listing |-> listing]

HTTPException(status, detail, kind) ==
    Response(status, detail, kind, NoUser, NoToken, NoToken, {})

Ok(user, access_token, refresh_token) ==
    Response(200, "", "ok", user, access_token, refresh_token, {})

\* a 200 response carrying a message
Message(detail, user) ==
    Response(200, detail, "ok", user, NoToken, NoToken, {})

----------------------------------------------------------------------------
(* Dependencies *)

\* mutant: the type is checked before the token is decoded
get_current_user_type_first(token, blacklist, db, t) ==
    IF token \in blacklist
    THEN HTTPException(401, "Token has been revoked", "Revoked")
    ELSE IF token.wf /\ token.key = SECRET_KEY /\ token.type # "access"
    THEN HTTPException(401, "Invalid token type", "WrongTokenType")
    ELSE LET d == jwt_decode(token, SECRET_KEY, t) IN
         IF d # "ok"
         THEN HTTPException(401, "Could not validate credentials", d)
         ELSE IF token.sub = None
         THEN HTTPException(401, "Invalid token", "MissingSubject")
         ELSE IF token.sub \notin DOMAIN db
         THEN HTTPException(401, "User not found", "UnknownSubject")
         ELSE Ok(User(db[token.sub]), NoToken, NoToken)

\* mutant: the exp claim is not validated; only the blacklist refuses a
\* token that was once good
get_current_user_no_expiry(token, blacklist, db, t) ==
    IF token \in blacklist
    THEN HTTPException(401, "Token has been revoked", "Revoked")
    ELSE LET d == jwt_decode(token, SECRET_KEY, token.exp) IN
         IF d # "ok"
         THEN HTTPException(401, "Could not validate credentials", d)
         ELSE IF token.type # "access"
         THEN HTTPException(401, "Invalid token type", "WrongTokenType")
         ELSE IF token.sub = None
         THEN HTTPException(401, "Invalid token", "MissingSubject")
         ELSE IF token.sub \notin DOMAIN db
         THEN HTTPException(401, "User not found", "UnknownSubject")
         ELSE Ok(User(db[token.sub]), NoToken, NoToken)

\* get_current_user: verify an access token and resolve the user
get_current_user(token, blacklist, db, t) ==
    IF token \in blacklist
    THEN HTTPException(401, "Token has been revoked", "Revoked")
    ELSE LET d == jwt_decode(token, SECRET_KEY, t) IN
         IF d # "ok"
         THEN HTTPException(401, "Could not validate credentials", d)
         ELSE IF token.type # "access"
         THEN HTTPException(401, "Invalid token type", "WrongTokenType")
         ELSE IF token.sub = None
         THEN HTTPException(401, "Invalid token", "MissingSubject")
         ELSE IF token.sub \notin DOMAIN db
         THEN HTTPException(401, "User not found", "UnknownSubject")
         ELSE Ok(User(db[token.sub]), NoToken, NoToken)

\* mutant: only the guest role is refused
require_admin_guest_only(current) ==
    IF current.status # 200 THEN current
    ELSE IF current.user.role = GUEST
    THEN HTTPException(403, "Admin access required", "Forbidden")
    ELSE current

\* mutant: the role is checked although get_current_user raised
require_admin_unchecked(current) ==
    IF current.user.role # ADMIN
    THEN HTTPException(403, "Admin access required", "Forbidden")
    ELSE current

\* require_admin, applied to what get_current_user returned
require_admin(current) ==
    IF current.status # 200 THEN current
    ELSE IF current.user.role # ADMIN
    THEN HTTPException(403, "Admin access required", "Forbidden")
    ELSE current

----------------------------------------------------------------------------
(* The basic variant, task_1_jwt_basics.py: one secret, no token type, no    *)
(* roles, no blacklist                                                       *)

basic_SECRET_KEY == "your-secret-key-keep-this-secure-change-in-production"
basic_ACCESS_TOKEN_EXPIRE_MINUTES == 30

basic_fake_users_db ==
    [u \in {"john"} |->
        [username |-> "john", full_name |-> "John Doe", email |-> "john@example.com",
         hashed_password |-> SecretHash, disabled |-> FALSE]]

basic_User(rec) == [username |-> rec.username, email |-> rec.email,
                    full_name |-> rec.full_name, disabled |-> rec.disabled]

basic_authenticate_user(username, password) ==
    IF username \notin DOMAIN basic_fake_users_db THEN None
    ELSE IF ~verify_password(password, basic_fake_users_db[username].hashed_password)
    THEN None
    ELSE basic_fake_users_db[username].username

\* the claims carry no "type"
basic_create_access_token(sub, expires_delta, t) ==
    LET expire == IF Truthy(expires_delta) THEN t + expires_delta[1]
                  ELSE t + timedelta_minutes(15)[1]
    IN jwt_encode(sub, None, expire, basic_SECRET_KEY)

basic_get_current_user(token, t) ==
    LET d == jwt_decode(token, basic_SECRET_KEY, t) IN
    IF d # "ok"
    THEN HTTPException(401, "Could not validate credentials", d)
    ELSE IF token.sub = None
    THEN HTTPException(401, "Invalid authentication credentials", "MissingSubject")
    ELSE IF token.sub \notin DOMAIN basic_fake_users_db
    THEN HTTPException(401, "User not found", "UnknownSubject")
    ELSE Ok(basic_User(basic_fake_users_db[token.sub]), NoToken, NoToken)

----------------------------------------------------------------------------
(* State *)

Request(op, token, username, password, minted, resp) ==
    [op |-> op, token |-> token, username |-> username, password |-> password,
     at |-> now, minted |-> minted, resp |-> resp]

\* a minted token, with the function and the endpoint that minted it and
\* the username of the /login request (None for /refresh)
Minted(token, fn, op, username) ==
    [token |-> token, fn |-> fn, op |-> op, username |-> username]

\* no request is being answered
Idle == [op |-> "idle", token |-> NoToken, username |-> None,
               password |-> None, at |-> 0, minted |-> {},
               resp |-> Ok(NoUser, NoToken, NoToken)]

Init ==
    /\ now = 0
    /\ fake_users_db = fake_users_db_seed
    /\ token_blacklist = {}
    /\ issued = {}
    /\ loggedOut = {}
    /\ last = Idle

----------------------------------------------------------------------------
(* What a client can send *)

Usernames == {"admin", "john", "guest", "mallory"}
Passwords == {"secret", "wrong"}

Subjects == {"john", "mallory", None}
TokenTypes == {"access", "refresh"}
Keys == {SECRET_KEY, REFRESH_SECRET_KEY}

\* tokens built by a client, with any claims and either secret, that expired a
\* second ago or expire this second
Forged ==
    {jwt_encode(s, ty, e, k) :
        s \in Subjects, ty \in TokenTypes, e \in {now - 1, now}, k \in Keys}
    \cup {Malformed}

IssuedTokens == {m.token : m \in issued}

\* a token string in a request
Presented == IssuedTokens \cup Forged

\* the Authorization header of a request: a bearer token, or none
Credentials == Presented \cup {NoToken}

\* status of HTTPBearer's "Not authenticated" rejection: 403 in FastAPI
\* releases before 0.122, 401 from then on
NotAuthenticatedStatus == {401, 403}

\* security = HTTPBearer(): a request without bearer credentials is rejected
\* before the dependant runs
security(token, st) ==
    IF token = NoToken
    THEN HTTPException(st, "Not authenticated", "NotAuthenticated")
    ELSE Ok(NoUser, NoToken, NoToken)

\* Depends(get_current_user), whose own dependency is Depends(security)
Depends_get_current_user(token, st) ==
    IF security(token, st).status # 200 THEN security(token, st)
    ELSE get_current_user(token, token_blacklist, fake_users_db, now)

\* Depends(require_admin), whose own dependency is Depends(get_current_user)
Depends_require_admin(token, st) ==
    require_admin(Depends_get_current_user(token, st))

----------------------------------------------------------------------------
(* Endpoints *)

\* POST /login
login(username, password) ==
    LET user == authenticate_user(fake_users_db, username, password) IN
    IF user = None
    THEN /\ last' = Request("login", NoToken, username, password, {},
                        HTTPException(401, "Incorrect credentials", "InvalidCredentials"))
         /\ UNCHANGED issued
    ELSE LET access_token == create_access_token(user,
                                 timedelta_minutes(ACCESS_TOKEN_EXPIRE_MINUTES), now)
             refresh_token == create_refresh_token(user,
                                 timedelta_days(REFRESH_TOKEN_EXPIRE_DAYS), now)
             minted == {Minted(access_token, "create_access_token", "login", username),
                        Minted(refresh_token, "create_refresh_token", "login", username)}
         IN /\ Cardinality(issued \cup minted) <= MaxIssued
            /\ last' = Request("login", NoToken, username, password, minted,
                               Ok(NoUser, access_token, refresh_token))
            /\ issued' = issued \cup minted

Login ==
    /\ last = Idle
    /\ \E username \in Usernames, password \in Passwords : login(username, password)
    /\ UNCHANGED <<now, fake_users_db, token_blacklist, loggedOut>>

\* mutant: /refresh also mints a new refresh token and returns it
refresh_access_token_rotating(refresh_token) ==
    LET d == jwt_decode(refresh_token, REFRESH_SECRET_KEY, now)
        fail(detail, kind) ==
            /\ last' = Request("refresh", refresh_token, None, None, {},
                               HTTPException(401, detail, kind))
            /\ UNCHANGED issued
    IN IF d # "ok" THEN fail("Invalid refresh token", d)
       ELSE IF refresh_token.type # "refresh"
       THEN fail("Invalid token type", "WrongTokenType")
       ELSE IF refresh_token.sub = None
       THEN fail("Invalid token", "MissingSubject")
       ELSE LET access_token == create_access_token(refresh_token.sub,
                                    timedelta_minutes(ACCESS_TOKEN_EXPIRE_MINUTES), now)
                new_refresh == create_refresh_token(refresh_token.sub,
                                    timedelta_days(REFRESH_TOKEN_EXPIRE_DAYS), now)
                minted == {Minted(access_token, "create_access_token", "refresh", None),
                           Minted(new_refresh, "create_refresh_token", "refresh", None)}
            IN /\ Cardinality(issued \cup minted) <= MaxIssued
               /\ last' = Request("refresh", refresh_token, None, None, minted,
                                  Ok(NoUser, access_token, new_refresh))
               /\ issued' = issued \cup minted

\* mutant: /refresh refuses a subject one of whose tokens was logged out
refresh_access_token_after_logout(refresh_token) ==
    LET d == jwt_decode(refresh_token, REFRESH_SECRET_KEY, now)
        fail(detail, kind) ==
            /\ last' = Request("refresh", refresh_token, None, None, {},
                               HTTPException(401, detail, kind))
            /\ UNCHANGED issued
    IN IF d # "ok" THEN fail("Invalid refresh token", d)
       ELSE IF refresh_token.type # "refresh"
       THEN fail("Invalid token type", "WrongTokenType")
       ELSE IF refresh_token.sub = None
       THEN fail("Invalid token", "MissingSubject")
       ELSE IF \E t \in loggedOut : t.sub = refresh_token.sub
       THEN fail("Token has been revoked", "Revoked")
       ELSE LET access_token == create_access_token(refresh_token.sub,
                                    timedelta_minutes(ACCESS_TOKEN_EXPIRE_MINUTES), now)
                minted == {Minted(access_token, "create_access_token", "refresh", None)}
            IN /\ Cardinality(issued \cup minted) <= MaxIssued
               /\ last' = Request("refresh", refresh_token, None, None, minted,
                                  Ok(NoUser, access_token, refresh_token))
               /\ issued' = issued \cup minted

\* mutant: /refresh looks the subject up, as access verification does
refresh_access_token_known_subject(refresh_token) ==
    LET d == jwt_decode(refresh_token, REFRESH_SECRET_KEY, now)
        fail(detail, kind) ==
            /\ last' = Request("refresh", refresh_token, None, None, {},
                               HTTPException(401, detail, kind))
            /\ UNCHANGED issued
    IN IF d # "ok" THEN fail("Invalid refresh token", d)
       ELSE IF refresh_token.type # "refresh"
       THEN fail("Invalid token type", "WrongTokenType")
       ELSE IF refresh_token.sub = None
       THEN fail("Invalid token", "MissingSubject")
       ELSE IF refresh_token.sub \notin DOMAIN fake_users_db
       THEN fail("User not found", "UnknownSubject")
       ELSE LET access_token == create_access_token(refresh_token.sub,
                                    timedelta_minutes(ACCESS_TOKEN_EXPIRE_MINUTES), now)
                minted == {Minted(access_token, "create_access_token", "refresh", None)}
            IN /\ Cardinality(issued \cup minted) <= MaxIssued
               /\ last' = Request("refresh", refresh_token, None, None, minted,
                                  Ok(NoUser, access_token, refresh_token))
               /\ issued' = issued \cup minted

\* mutant: /refresh does not validate the exp claim of the refresh token
refresh_access_token_no_expiry(refresh_token) ==
    LET d == jwt_decode(refresh_token, REFRESH_SECRET_KEY, refresh_token.exp)
        fail(detail, kind) ==
            /\ last' = Request("refresh", refresh_token, None, None, {},
                               HTTPException(401, detail, kind))
            /\ UNCHANGED issued
    IN IF d # "ok" THEN fail("Invalid refresh token", d)
       ELSE IF refresh_token.type # "refresh"
       THEN fail("Invalid token type", "WrongTokenType")
       ELSE IF refresh_token.sub = None
       THEN fail("Invalid token", "MissingSubject")
       ELSE LET access_token == create_access_token(refresh_token.sub,
                                    timedelta_minutes(ACCESS_TOKEN_EXPIRE_MINUTES), now)
                minted == {Minted(access_token, "create_access_token", "refresh", None)}
            IN /\ Cardinality(issued \cup minted) <= MaxIssued
               /\ last' = Request("refresh", refresh_token, None, None, minted,
                                  Ok(NoUser, access_token, refresh_token))
               /\ issued' = issued \cup minted

\* POST /refresh
refresh_access_token(refresh_token) ==
    LET d == jwt_decode(refresh_token, REFRESH_SECRET_KEY, now)
        fail(detail, kind) ==
            /\ last' = Request("refresh", refresh_token, None, None, {},
                               HTTPException(401, detail, kind))
            /\ UNCHANGED issued
    IN IF d # "ok" THEN fail("Invalid refresh token", d)
       ELSE IF refresh_token.type # "refresh"
       THEN fail("Invalid token type", "WrongTokenType")
       ELSE IF refresh_token.sub = None
       THEN fail("Invalid token", "MissingSubject")
       ELSE LET access_token == create_access_token(refresh_token.sub,
                                    timedelta_minutes(ACCESS_TOKEN_EXPIRE_MINUTES), now)
                minted == {Minted(access_token, "create_access_token", "refresh", None)}
            IN /\ Cardinality(issued \cup minted) <= MaxIssued
               /\ last' = Request("refresh", refresh_token, None, None, minted,
                                  Ok(NoUser, access_token, refresh_token))
               /\ issued' = issued \cup minted

Refresh ==
    /\ last = Idle
    /\ \E refresh_token \in Presented : refresh_access_token(refresh_token)
    /\ UNCHANGED <<now, fake_users_db, token_blacklist, loggedOut>>

\* GET /me
get_current_user_info(token, st) ==
    LET current_user == Depends_get_current_user(token, st) IN
    last' = Request("me", token, None, None, {}, current_user)

\* mutant: GET /me puts a token it refuses on the blacklist
Me_blacklists_refused ==
    /\ last = Idle
    /\ \E token \in Credentials, st \in NotAuthenticatedStatus :
          /\ get_current_user_info(token, st)
          /\ token_blacklist' =
                IF Depends_get_current_user(token, st).status # 200
                THEN token_blacklist \cup {token} ELSE token_blacklist
    /\ UNCHANGED <<now, fake_users_db, issued, loggedOut>>

Me ==
    /\ last = Idle
    /\ \E token \in Credentials, st \in NotAuthenticatedStatus :
          get_current_user_info(token, st)
    /\ UNCHANGED <<now, fake_users_db, token_blacklist, issued, loggedOut>>

\* POST /logout: answers with a message; the blacklist is left alone
logout(token, st) ==
    LET current_user == Depends_get_current_user(token, st) IN
    IF current_user.status # 200
    THEN /\ last' = Request("logout", token, None, None, {}, current_user)
         /\ UNCHANGED loggedOut
    ELSE /\ token \in loggedOut \/ token \notin IssuedTokens
                \/ Cardinality(loggedOut) < MaxLogouts
         /\ last' = Request("logout", token, None, None, {},
                            Message("logged out", current_user.user))
         /\ loggedOut' = loggedOut \cup ({token} \cap IssuedTokens)

\* mutant: a successful logout puts its token on the blacklist
Logout_inserts_token ==
    /\ last = Idle
    /\ \E token \in Credentials, st \in NotAuthenticatedStatus :
          /\ logout(token, st)
          /\ token_blacklist' =
                IF Depends_get_current_user(token, st).status = 200
                THEN token_blacklist \cup {token} ELSE token_blacklist
    /\ UNCHANGED <<now, fake_users_db, issued>>

\* mutant: a token presented to /logout is blacklisted even when it is refused
Logout_revokes_refused ==
    /\ last = Idle
    /\ \E token \in Credentials, st \in NotAuthenticatedStatus :
          /\ logout(token, st)
          /\ token_blacklist' = token_blacklist \cup ({token} \cap IssuedTokens)
    /\ UNCHANGED <<now, fake_users_db, issued>>

\* mutant: a logout ends every session of the user
Logout_all_sessions ==
    /\ last = Idle
    /\ \E token \in Credentials, st \in NotAuthenticatedStatus :
          /\ logout(token, st)
          /\ token_blacklist' =
                IF Depends_get_current_user(token, st).status = 200
                THEN token_blacklist \cup {t \in IssuedTokens : t.sub = token.sub}
                ELSE token_blacklist
    /\ UNCHANGED <<now, fake_users_db, issued>>

Logout ==
    /\ last = Idle
    /\ \E token \in Credentials, st \in NotAuthenticatedStatus : logout(token, st)
    /\ UNCHANGED <<now, fake_users_db, token_blacklist, issued>>

\* GET /admin-only
admin_endpoint(token, st) ==
    LET admin_user == Depends_require_admin(token, st) IN
    IF admin_user.status # 200
    THEN last' = Request("admin-only", token, None, None, {}, admin_user)
    ELSE last' = Request("admin-only", token, None, None, {},
                         Message("Welcome admin!", admin_user.user))

AdminOnly ==
    /\ last = Idle
    /\ \E token \in Credentials, st \in NotAuthenticatedStatus : admin_endpoint(token, st)
    /\ UNCHANGED <<now, fake_users_db, token_blacklist, issued, loggedOut>>

\* mutant: the listing is for admins only
list_users_admin_only(token, st) ==
    LET current_user == Depends_require_admin(token, st)
        users == {[username |-> fake_users_db[u].username, role |-> fake_users_db[u].role] :
                     u \in DOMAIN fake_users_db}
    IN IF current_user.status # 200
       THEN last' = Request("users", token, None, None, {}, current_user)
       ELSE last' = Request("users", token, None, None, {},
                            Response(200, "", "ok", current_user.user, NoToken, NoToken, users))

\* GET /users
list_users(token, st) ==
    LET current_user == Depends_get_current_user(token, st)
        users == {[username |-> fake_users_db[u].username, role |-> fake_users_db[u].role] :
                     u \in DOMAIN fake_users_db}
    IN IF current_user.status # 200
       THEN last' = Request("users", token, None, None, {}, current_user)
       ELSE last' = Request("users", token, None, None, {},
                            Response(200, "", "ok", current_user.user, NoToken, NoToken, users))

ListUsers ==
    /\ last = Idle
    /\ \E token \in Credentials, st \in NotAuthenticatedStatus : list_users(token, st)
    /\ UNCHANGED <<now, fake_users_db, token_blacklist, issued, loggedOut>>

\* tokens a client of the basic variant can build
basic_Forged ==
    {jwt_encode(s, None, e, k) :
        s \in Subjects, e \in {now - 1, now}, k \in {basic_SECRET_KEY, OTHER_KEY}}
    \cup {Malformed}

\* the Authorization header of a request to the basic variant: a token
\* /login hands out this second, a built one, or none
basic_Credentials ==
    {basic_create_access_token(u, timedelta_minutes(basic_ACCESS_TOKEN_EXPIRE_MINUTES), now) :
        u \in DOMAIN basic_fake_users_db}
    \cup basic_Forged \cup {NoToken}

\* basic variant, POST /login
basic_login(username, password) ==
    LET user == basic_authenticate_user(username, password) IN
    IF user = None
    THEN /\ last' = Request("basic-login", NoToken, username, password, {},
                        HTTPException(401, "Incorrect username or password",
                                      "InvalidCredentials"))
    ELSE LET access_token_expires == timedelta_minutes(basic_ACCESS_TOKEN_EXPIRE_MINUTES)
             access_token == basic_create_access_token(user, access_token_expires, now)
             minted == {Minted(access_token, "create_access_token", "basic-login", username)}
         IN last' = Request("basic-login", NoToken, username, password, minted,
                            Ok(NoUser, access_token, NoToken))

BasicLogin ==
    /\ last = Idle
    /\ \E username \in Usernames, password \in Passwords : basic_login(username, password)
    /\ UNCHANGED <<now, fake_users_db, token_blacklist, issued, loggedOut>>

\* basic variant, GET /me
basic_read_users_me(token, st) ==
    LET current_user == IF security(token, st).status # 200 THEN security(token, st)
                        ELSE basic_get_current_user(token, now)
    IN last' = Request("basic-me", token, None, None, {}, current_user)

BasicMe ==
    /\ last = Idle
    /\ \E token \in basic_Credentials, st \in NotAuthenticatedStatus :
          basic_read_users_me(token, st)
    /\ UNCHANGED <<now, fake_users_db, token_blacklist, issued, loggedOut>>

\* the clock advances to the last second of an issued token's life, or to
\* the second after it
NextTimes ==
    {t \in {m.token.exp : m \in issued} \cup {m.token.exp + 1 : m \in issued} : t > now}

\* mutant: the wall clock can also be set back by a second
Tick_steps_back ==
    /\ last = Idle
    /\ \E t \in NextTimes \cup {now - 1} : now' = t
    /\ UNCHANGED <<fake_users_db, token_blacklist, issued, loggedOut, last>>

Tick ==
    /\ last = Idle
    /\ \E t \in NextTimes : now' = t
    /\ UNCHANGED <<fake_users_db, token_blacklist, issued, loggedOut, last>>

\* the response reaches the client; the next request can be served
Return ==
    /\ last # Idle
    /\ last' = Idle
    /\ UNCHANGED <<now, fake_users_db, token_blacklist, issued, loggedOut>>

Next ==
    \/ Login
    \/ Refresh
    \/ Me
    \/ Logout
    \/ AdminOnly
    \/ ListUsers
    \/ BasicLogin
    \/ BasicMe
    \/ Tick
    \/ Return

Spec == Init /\ [][Next]_vars

\* the advanced service alone, task_2_jwt_advanced.py
NextAdvanced ==
    \/ Login
    \/ Refresh
    \/ Me
    \/ Logout
    \/ AdminOnly
    \/ ListUsers
    \/ Tick
    \/ Return

SpecAdvanced == Init /\ [][NextAdvanced]_vars

----------------------------------------------------------------------------
(* The advanced service started on a user table whose disabled flags are    *)
(* set: the flag is data of the table, which no endpoint writes              *)

\* the user table with the disabled flag set for the users in D and cleared
\* for the others
WithDisabled(db, D) ==
    [u \in DOMAIN db |-> [db[u] EXCEPT !.disabled = (u \in D)]]

\* the users the service is started with as disabled: the administrator and
\* the ordinary user, the guest being left enabled
DisabledSets == {{"admin", "john"}}

InitDisabled ==
    /\ now = 0
    /\ \E D \in DisabledSets : fake_users_db = WithDisabled(fake_users_db_seed, D)
    /\ token_blacklist = {}
    /\ issued = {}
    /\ loggedOut = {}
    /\ last = Idle

NextDisabled ==
    \/ Login
    \/ Refresh
    \/ Me
    \/ Logout
    \/ AdminOnly
    \/ ListUsers
    \/ Tick
    \/ Return

SpecDisabled == InitDisabled /\ [][NextDisabled]_vars

----------------------------------------------------------------------------
(* One session: a client that logs in once and from then on presents only   *)
(* the tokens the service gave it                                            *)

\* /login, as long as no login has succeeded
SessionLogin ==
    /\ last = Idle
    /\ issued = {}
    /\ \E username \in Usernames, password \in Passwords : login(username, password)
    /\ UNCHANGED <<now, fake_users_db, token_blacklist, loggedOut>>

SessionRefresh ==
    /\ last = Idle
    /\ \E refresh_token \in IssuedTokens : refresh_access_token(refresh_token)
    /\ UNCHANGED <<now, fake_users_db, token_blacklist, loggedOut>>

SessionMe ==
    /\ last = Idle
    /\ \E token \in IssuedTokens, st \in NotAuthenticatedStatus :
          get_current_user_info(token, st)
    /\ UNCHANGED <<now, fake_users_db, token_blacklist, issued, loggedOut>>

SessionLogout ==
    /\ last = Idle
    /\ \E token \in IssuedTokens, st \in NotAuthenticatedStatus : logout(token, st)
    /\ UNCHANGED <<now, fake_users_db, token_blacklist, issued>>

SessionAdminOnly ==
    /\ last = Idle
    /\ \E token \in IssuedTokens, st \in NotAuthenticatedStatus :
          admin_endpoint(token, st)
    /\ UNCHANGED <<now, fake_users_db, token_blacklist, issued, loggedOut>>

SessionListUsers ==
    /\ last = Idle
    /\ \E token \in IssuedTokens, st \in NotAuthenticatedStatus : list_users(token, st)
    /\ UNCHANGED <<now, fake_users_db, token_blacklist, issued, loggedOut>>

NextSession ==
    \/ SessionLogin
    \/ SessionRefresh
    \/ SessionMe
    \/ SessionLogout
    \/ SessionAdminOnly
    \/ SessionListUsers
    \/ Tick
    \/ Return

SpecSession == Init /\ [][NextSession]_vars

----------------------------------------------------------------------------
(* The minting functions on their own: any caller, any expires_delta *)

\* the expires_delta values a caller passes: none, or a whole number of
\* seconds that is negative, zero or positive
Deltas == {NoDelta} \cup {<<d>> : d \in (0 - MaxDelta)..MaxDelta}

\* a call of a minting function and the token it returned
MintCall(fn, sub, expires_delta, token) ==
    [op |-> fn, sub |-> sub, expires_delta |-> expires_delta,
     token |-> token, at |-> now]

InitMint ==
    /\ now = 0
    /\ fake_users_db = fake_users_db_seed
    /\ token_blacklist = {}
    /\ issued = {}
    /\ loggedOut = {}
    /\ last = Idle

CallCreateAccessToken ==
    /\ \E sub \in Subjects, expires_delta \in Deltas :
          last' = MintCall("create_access_token", sub, expires_delta,
                           create_access_token(sub, expires_delta, now))
    /\ UNCHANGED <<now, fake_users_db, token_blacklist, issued, loggedOut>>

CallCreateRefreshToken ==
    /\ \E sub \in Subjects, expires_delta \in Deltas :
          last' = MintCall("create_refresh_token", sub, expires_delta,
                           create_refresh_token(sub, expires_delta, now))
    /\ UNCHANGED <<now, fake_users_db, token_blacklist, issued, loggedOut>>

CallBasicCreateAccessToken ==
    /\ \E sub \in Subjects, expires_delta \in Deltas :
          last' = MintCall("basic_create_access_token", sub, expires_delta,
                           basic_create_access_token(sub, expires_delta, now))
    /\ UNCHANGED <<now, fake_users_db, token_blacklist, issued, loggedOut>>

\* a second passes between two calls
MintTick ==
    /\ now < MaxMintTime
    /\ now' = now + 1
    /\ UNCHANGED <<fake_users_db, token_blacklist, issued, loggedOut, last>>

NextMint ==
    \/ CallCreateAccessToken
    \/ CallCreateRefreshToken
    \/ CallBasicCreateAccessToken
    \/ MintTick

SpecMint == InitMint /\ [][NextMint]_vars

----------------------------------------------------------------------------
(* Properties *)

\* the requests that verify an access token through get_current_user
AccessOps == {"me", "logout", "admin-only", "users"}

\* the tokens a minting function has returned
IssuedBy(fn) == {m.token : m \in {i \in issued : i.fn = fn}}

\* C1: after a successful logout performed with an unexpired access token t,
\* every later verification of t that happens before t expires fails with
\* Revoked (401).
C1_LogoutRevokes ==
    (/\ last.op \in AccessOps
     /\ last.token \in loggedOut
     /\ last.token.exp >= last.at)
    => (last.resp.status = 401 /\ last.resp.kind = "Revoked")

\* C2, as claimed: a token issued by create_refresh_token fails access
\* verification, and a token issued by create_access_token fails /refresh,
\* both with the failure kind WrongTokenType ("Invalid token type").
C2_TypeIsolationWrongTokenType ==
    /\ (last.op \in AccessOps /\ last.token \in IssuedBy("create_refresh_token"))
          => (last.resp.status = 401 /\ last.resp.kind = "WrongTokenType")
    /\ (last.op = "refresh" /\ last.token \in IssuedBy("create_access_token"))
          => (last.resp.status = 401 /\ last.resp.kind = "WrongTokenType")

\* C2, amended: a token issued by create_refresh_token fails access
\* verification, and a token issued by create_access_token fails /refresh,
\* both with 401 and the failure kind BadSignature (the two functions sign
\* with different secrets, and the signature is checked before the type).
C2_TypeIsolationBadSignature ==
    /\ (last.op \in AccessOps /\ last.token \in IssuedBy("create_refresh_token"))
          => /\ last.resp.status = 401
             /\ last.resp.kind = "BadSignature"
             /\ last.resp.detail = "Could not validate credentials"
    /\ (last.op = "refresh" /\ last.token \in IssuedBy("create_access_token"))
          => /\ last.resp.status = 401
             /\ last.resp.kind = "BadSignature"
             /\ last.resp.detail = "Invalid refresh token"

\* C2 witness: GET /me was asked with a refresh token that /login issued, while
\* that token was unexpired, and was refused for its signature.
C2_Witness ==
    /\ last.op = "me"
    /\ last.token \in IssuedBy("create_refresh_token")
    /\ last.token.exp >= last.at
    /\ last.resp.kind = "BadSignature"

\* C3: a token signed with the refresh secret, whatever its claims, is
\* rejected by access verification with BadSignature; a token signed with the
\* access secret is never accepted by /refresh.
C3_CrossSecretRejection ==
    /\ (last.op \in AccessOps /\ last.token.wf /\ last.token.key = REFRESH_SECRET_KEY)
          => (last.resp.status = 401 /\ last.resp.kind = "BadSignature")
    /\ (last.op = "refresh" /\ last.token.wf /\ last.token.key = SECRET_KEY)
          => (last.resp.status = 401 /\ last.minted = {})

\* C3 witness: a token signed with the refresh secret whose claims are those
\* of a good access token (type access, known subject, unexpired) was refused
\* by GET /me.
C3_Witness ==
    /\ last.op = "me"
    /\ last.token.wf
    /\ last.token.key = REFRESH_SECRET_KEY
    /\ last.token.type = "access"
    /\ last.token.sub \in DOMAIN fake_users_db
    /\ last.token.exp >= last.at
    /\ last.resp.kind = "BadSignature"

\* the checks of access verification, and whether a token fails one
Fails(check, token) ==
    CASE check = "revocation" -> token \in token_blacklist
      [] check = "parse" -> ~token.wf
      [] check = "signature" -> token.wf /\ token.key # SECRET_KEY
      [] check = "type" -> token.wf /\ token.type # "access"
      [] check = "expiry" -> token.wf /\ token.exp < last.at
      [] check = "subject" -> token.wf /\ token.sub \notin DOMAIN fake_users_db

\* the error kinds that report a failed check
KindsOf(check) ==
    CASE check = "revocation" -> {"Revoked"}
      [] check = "parse" -> {"MalformedToken"}
      [] check = "signature" -> {"BadSignature"}
      [] check = "type" -> {"WrongTokenType"}
      [] check = "expiry" -> {"Expired"}
      [] check = "subject" -> {"MissingSubject", "UnknownSubject"}

\* a request that presented a token to get_current_user was answered with
\* the error of the first check of order that the token fails, and with no
\* verification error when it fails none
FirstFailingCheckIn(order) ==
    (last.op \in AccessOps /\ last.token # NoToken) =>
        LET failing == {i \in 1..Len(order) : Fails(order[i], last.token)} IN
        IF failing = {}
        THEN last.resp.kind \in {"ok", "Forbidden"}
        ELSE /\ last.resp.status = 401
             /\ \E i \in failing :
                   /\ \A j \in failing : i <= j
                   /\ last.resp.kind \in KindsOf(order[i])

VerifyOps == AccessOps \cup {"refresh", "basic-me"}

PathKey(op) ==
    CASE op = "refresh" -> REFRESH_SECRET_KEY
      [] op = "basic-me" -> basic_SECRET_KEY
      [] OTHER -> SECRET_KEY

\* C5, as claimed: a token that expired a second ago fails verification with
\* the Expired error kind, whether or not its signature is valid, on the
\* access path and on the refresh path.
C5_ExpiredAlwaysExpired ==
    (last.op \in VerifyOps /\ last.token.wf /\ last.token.exp = last.at - 1)
    => (last.resp.status = 401 /\ last.resp.kind = "Expired")

\* C5, amended: a token that expired a second ago always fails verification
\* with 401, on the access path, on the refresh path and in the basic
\* variant; the error kind is Expired when its signature verifies under the
\* path's secret and BadSignature when it does not.
C5_ExpiredAlwaysRejected ==
    (last.op \in VerifyOps /\ last.token.wf /\ last.token.exp = last.at - 1)
    => /\ last.resp.status = 401
       /\ last.minted = {}
       /\ last.resp.kind = (IF last.token.key = PathKey(last.op)
                            THEN "Expired" ELSE "BadSignature")

\* C5 witness: an access token that /login or /refresh issued was presented
\* to GET /me one second after its expiry and was refused as expired.
C5_Witness ==
    /\ last.op = "me"
    /\ last.token \in IssuedBy("create_access_token")
    /\ last.token.exp = last.at - 1
    /\ last.resp.kind = "Expired"

\* C6: the access token that login(u, correct password) returned recovers
\* subject u and type access, and at any time before its expiry GET /me with
\* it succeeds and returns exactly user u.
C6_RoundTrip ==
    \A m \in issued :
        (m.op = "login" /\ m.fn = "create_access_token") =>
            /\ m.token.sub = m.username
            /\ m.token.type = "access"
            /\ (last.op = "me" /\ last.token = m.token /\ last.at < m.token.exp)
                  => /\ last.resp.status = 200
                     /\ last.resp.user = User(fake_users_db[m.username])

\* C6 witness: GET /me succeeded with an access token of /login at a time
\* after the login and before the token's expiry.
C6_Witness ==
    /\ last.op = "me"
    /\ \E m \in issued : /\ m.op = "login"
                         /\ m.fn = "create_access_token"
                         /\ m.token = last.token
    /\ last.at > last.token.exp - ACCESS_TOKEN_EXPIRE_MINUTES * 60
    /\ last.at < last.token.exp
    /\ last.resp.status = 200

\* a refresh token that /refresh has to accept at time t
ValidRefresh(token, t) ==
    /\ token.wf
    /\ token.key = REFRESH_SECRET_KEY
    /\ token.type = "refresh"
    /\ token.sub # None
    /\ token.exp >= t

\* C7: POST /refresh with a valid unexpired refresh token for subject s mints
\* exactly one token, an access token whose subject is s, returns the
\* presented refresh token unchanged and mints no refresh token.
C7_RefreshMintsAccessOnly ==
    (last.op = "refresh" /\ ValidRefresh(last.token, last.at))
    => /\ last.resp.status = 200
       /\ last.resp.refresh_token = last.token
       /\ last.resp.access_token.wf
       /\ last.resp.access_token.sub = last.token.sub
       /\ last.resp.access_token.type = "access"
       /\ last.minted = {Minted(last.resp.access_token, "create_access_token", "refresh", None)}
       /\ last.minted \subseteq issued

\* C7 witness: /refresh succeeded with a refresh token of /login, some time
\* after that login.
C7_Witness ==
    /\ last.op = "refresh"
    /\ last.token \in IssuedBy("create_refresh_token")
    /\ last.at > last.token.exp - REFRESH_TOKEN_EXPIRE_DAYS * 86400
    /\ last.resp.status = 200

\* C8: on GET /admin-only, for every caller whose token verifies, the request
\* succeeds with that same user iff the user's role is admin, and fails with
\* 403 Forbidden for the roles user and guest.
C8_RoleEnforcement ==
    LET current == get_current_user(last.token, token_blacklist, fake_users_db, last.at) IN
    (last.op = "admin-only" /\ current.status = 200)
    => IF current.user.role = ADMIN
       THEN last.resp.status = 200 /\ last.resp.user = current.user
       ELSE /\ current.user.role \in {USER, GUEST}
            /\ last.resp.status = 403
            /\ last.resp.kind = "Forbidden"

\* C8 witness: the guest, holding a token of /login, was refused on
\* GET /admin-only with 403.
C8_Witness ==
    /\ last.op = "admin-only"
    /\ last.token \in IssuedBy("create_access_token")
    /\ last.token.sub = "guest"
    /\ last.resp.status = 403

C10_LoginFailureUniform ==
    [][LET req == last'
           db == IF req.op = "login" THEN fake_users_db ELSE basic_fake_users_db
           good == /\ req.username \in DOMAIN db
                   /\ verify_password(req.password, db[req.username].hashed_password)
       IN req.op \in {"login", "basic-login"}
          => IF good
             THEN req.resp.status = 200 /\ req.resp.access_token.wf
             ELSE /\ req.resp = HTTPException(401,
                                   IF req.op = "login" THEN "Incorrect credentials"
                                   ELSE "Incorrect username or password",
                                   "InvalidCredentials")
                  /\ req.minted = {}
                  /\ UNCHANGED <<now, fake_users_db, token_blacklist, issued, loggedOut>>
      ]_vars

\* C10 witness: a login with a known username and a wrong password was
\* refused.
C10_Witness ==
    /\ last.op = "login"
    /\ last.username \in DOMAIN fake_users_db
    /\ last.password # "secret"
    /\ last.resp.status = 401

\* C11: once access verification of a token fails because the token is
\* expired or revoked, it fails in every later state: no step of the service
\* or of the clock makes such a token verify again (a step that leaves the
\* clock, the blacklist and the user table alone cannot change a verdict).
C11_NoReturnToActive ==
    [][\/ UNCHANGED <<now, token_blacklist, fake_users_db>>
       \/ \A t \in Presented :
             get_current_user(t, token_blacklist, fake_users_db, now).kind
                 \in {"Expired", "Revoked"}
             => get_current_user(t, token_blacklist', fake_users_db', now').status # 200
      ]_vars

\* C11 witness: an issued access token that had already expired at an earlier
\* point of the clock was presented again later and was refused again.
C11_Witness ==
    /\ last.op = "me"
    /\ last.token \in IssuedBy("create_access_token")
    /\ last.at > last.token.exp + 1
    /\ last.resp.status = 401
    /\ last.resp.kind = "Expired"

\* C12: revocation persists: a token with which /logout succeeded is in the
\* revocation registry at every later point until its natural expiry (and
\* logging it out again leaves the registry as it was).
C12_RevocationPersists ==
    \A t \in loggedOut : t.exp >= now => t \in token_blacklist

\* the access tokens that /login minted together with refresh token r
PairedAccess(r) ==
    {a.token : a \in {i \in issued :
        /\ i.op = "login"
        /\ i.fn = "create_access_token"
        /\ i.token.sub = r.sub
        /\ i.token.exp - ACCESS_TOKEN_EXPIRE_MINUTES * 60
              = r.exp - REFRESH_TOKEN_EXPIRE_DAYS * 86400}}

\* C13: a refresh token obtained at login still yields an access token that
\* verifies after the access token of the same login has been logged out, at
\* any time up to the refresh token's expiry.
C13_RefreshSurvivesLogout ==
    (/\ last.op = "refresh"
     /\ last.token \in IssuedBy("create_refresh_token")
     /\ PairedAccess(last.token) \cap loggedOut # {}
     /\ last.at <= last.token.exp)
    => /\ last.resp.status = 200
       /\ last.resp.access_token.sub = last.token.sub
       /\ get_current_user(last.resp.access_token, token_blacklist,
                           fake_users_db, last.at).status = 200

\* C13 witness: /refresh succeeded with the refresh token of a login whose
\* access token had been logged out.
C13_Witness ==
    /\ last.op = "refresh"
    /\ last.token \in IssuedBy("create_refresh_token")
    /\ PairedAccess(last.token) \cap loggedOut # {}
    /\ last.resp.status = 200
    /\ last.resp.access_token.wf

\* C14: an access token that is correctly signed, of type access, unexpired
\* and not revoked, and whose subject is not a key of the user table, is
\* refused with 401 UnknownSubject ("User not found"), in both variants;
\* /refresh looks no subject up and mints an access token for whatever
\* subject a valid refresh token carries.
C14_UnknownSubject ==
    /\ (/\ last.op \in AccessOps
        /\ last.token.wf
        /\ last.token.key = SECRET_KEY
        /\ last.token.type = "access"
        /\ last.token.exp >= last.at
        /\ last.token \notin token_blacklist
        /\ last.token.sub # None
        /\ last.token.sub \notin DOMAIN fake_users_db)
          => /\ last.resp.status = 401
             /\ last.resp.kind = "UnknownSubject"
             /\ last.resp.detail = "User not found"
    /\ (/\ last.op = "basic-me"
        /\ last.token.wf
        /\ last.token.key = basic_SECRET_KEY
        /\ last.token.exp >= last.at
        /\ last.token.sub # None
        /\ last.token.sub \notin DOMAIN basic_fake_users_db)
          => /\ last.resp.status = 401
             /\ last.resp.kind = "UnknownSubject"
             /\ last.resp.detail = "User not found"
    /\ (/\ last.op = "refresh"
        /\ ValidRefresh(last.token, last.at)
        /\ last.token.sub \notin DOMAIN fake_users_db)
          => /\ last.resp.status = 200
             /\ last.resp.access_token.wf
             /\ last.resp.access_token.sub = last.token.sub

\* C14 witness: GET /me with a well-signed, unexpired access token of a
\* subject the user table does not know was refused as "User not found".
C14_Witness ==
    /\ last.op = "me"
    /\ last.token.wf
    /\ last.token.key = SECRET_KEY
    /\ last.token.type = "access"
    /\ last.token.exp >= last.at
    /\ last.token.sub = "mallory"
    /\ last.resp.kind = "UnknownSubject"

\* C15: no revoke is lost and an abandoned verification changes nothing: a
\* step in which a handler of an access-token endpoint runs leaves the
\* blacklist and the user table as they were, and when a successful logout
\* has returned, the token it was called with is in the blacklist.
C15_NoLostRevoke ==
    [][/\ (last'.op \in AccessOps \ {"logout"}
              => UNCHANGED <<fake_users_db, token_blacklist>>)
       /\ (/\ last.op = "logout"
           /\ last.resp.status = 200
           /\ last' = Idle) => last.token \in token_blacklist'
      ]_vars

MintFns == {"create_access_token", "create_refresh_token",
            "basic_create_access_token"}

\* the lifetime a minting function falls back to
DefaultLifetime(fn) ==
    IF fn = "create_refresh_token" THEN REFRESH_TOKEN_EXPIRE_DAYS * 86400
    ELSE 15 * 60

\* C16 as stated: every token a minting function returns, for an absent,
\* zero, positive or negative expires_delta, carries exactly one token type
\* and an expiry strictly later than the time of minting.
C16_MintInvariant ==
    last.op \in MintFns
    => /\ last.token.type \in TokenTypes
       /\ last.token.exp > last.at

\* C16 amended: create_access_token and create_refresh_token of the advanced
\* variant stamp exactly one type (access, refresh); the basic variant's
\* create_access_token stamps none.  With an absent or zero expires_delta the
\* expiry is the mint time plus the default lifetime, with a positive one it
\* is the mint time plus the delta, both strictly later than the mint time;
\* with a negative one it is the mint time plus the delta, which is earlier
\* than the mint time.
C16_MintInvariantAmended ==
    last.op \in MintFns
    => /\ last.token.wf
       /\ last.token.sub = last.sub
       /\ last.op = "create_access_token" => last.token.type = "access"
       /\ last.op = "create_refresh_token" => last.token.type = "refresh"
       /\ last.op = "basic_create_access_token" => last.token.type = None
       /\ (last.expires_delta = NoDelta \/ last.expires_delta[1] = 0)
             => /\ last.token.exp = last.at + DefaultLifetime(last.op)
                /\ last.token.exp > last.at
       /\ (last.expires_delta # NoDelta /\ last.expires_delta[1] > 0)
             => /\ last.token.exp = last.at + last.expires_delta[1]
                /\ last.token.exp > last.at
       /\ (last.expires_delta # NoDelta /\ last.expires_delta[1] < 0)
             => /\ last.token.exp = last.at + last.expires_delta[1]
                /\ last.token.exp < last.at

\* C16 witness: a token minted with a zero expires_delta got the default
\* lifetime, and one is never minted before the epoch of the model.
C16_Witness ==
    /\ last.op = "create_access_token"
    /\ last.at > 0
    /\ last.expires_delta = <<0>>
    /\ last.token.exp = last.at + 15 * 60

\* status, kind and detail of a response
Verdict(resp) == <<resp.status, resp.kind, resp.detail>>

\* C17: verification is read-only: a step in which GET /me, POST /logout,
\* GET /users, GET /admin-only or POST /refresh answers leaves the user table
\* and the blacklist unchanged, whether it accepts or refuses, and the
\* verdict is the one get_current_user (followed by require_admin on
\* /admin-only) computes from the token, the time, the user table and the
\* blacklist alone; /refresh accepts exactly the tokens that are valid
\* refresh tokens at that time.
C17_VerificationReadOnly ==
    [][last'.op \in AccessOps \cup {"refresh"}
        => LET current == get_current_user(last'.token, token_blacklist,
                                           fake_users_db, now)
           IN /\ UNCHANGED <<fake_users_db, token_blacklist>>
              /\ last'.at = now
              /\ (last'.op \in {"me", "users"} /\ last'.token # NoToken)
                    => /\ Verdict(last'.resp) = Verdict(current)
                       /\ last'.resp.user = current.user
              /\ (last'.op = "logout" /\ last'.token # NoToken)
                    => /\ last'.resp.status = current.status
                       /\ last'.resp.user = current.user
                       /\ current.status # 200
                             => Verdict(last'.resp) = Verdict(current)
              /\ (last'.op = "admin-only" /\ last'.token # NoToken)
                    => /\ last'.resp.status = require_admin(current).status
                       /\ last'.resp.user = require_admin(current).user
                       /\ require_admin(current).status # 200
                             => Verdict(last'.resp) = Verdict(require_admin(current))
              /\ last'.op = "refresh"
                    => (last'.resp.status = 200 <=> ValidRefresh(last'.token, now))
      ]_vars

\* C17 witness: a GET /me was refused after tokens had been issued and one
\* logged out, with the user table and the blacklist as they were at the
\* start.
C17_Witness ==
    /\ last.op = "me"
    /\ last.token \in loggedOut
    /\ last.resp.status = 401
    /\ issued # {}
    /\ fake_users_db = fake_users_db_seed
    /\ token_blacklist = {}

\* C18: an access token whose expiry has passed is refused whether or not
\* it is on the blacklist: with the token added to the blacklist and with
\* it removed, get_current_user refuses it, so removing the entry of an
\* expired token never turns a refused token into an accepted one; and every
\* request made with such a token was refused with 401.
C18_EvictionSafety ==
    /\ \A t \in IssuedTokens \cup {last.token} :
          t.exp < now
          => /\ get_current_user(t, token_blacklist \cup {t},
                                 fake_users_db, now).status = 401
             /\ get_current_user(t, token_blacklist \ {t},
                                 fake_users_db, now).status = 401
    /\ (/\ last.op \in AccessOps
        /\ last.token # NoToken
        /\ last.token.exp < last.at)
          => last.resp.status = 401

\* C18 witness: GET /users with an issued access token past its expiry and
\* not on the blacklist was refused as expired; on the blacklist it would be
\* refused as revoked.
C18_Witness ==
    /\ last.op = "users"
    /\ last.token \in IssuedBy("create_access_token")
    /\ last.token.exp < last.at
    /\ last.token \notin token_blacklist
    /\ last.resp.status = 401
    /\ last.resp.kind = "Expired"
    /\ get_current_user(last.token, token_blacklist \cup {last.token},
                        fake_users_db, last.at).kind = "Revoked"

\* C19: revocation is per token: a step in which POST /logout succeeds with
\* token t leaves the verification outcome of every other token as it was,
\* among them the other tokens issued to the same subject by a second login
\* or by /refresh.
C19_RevocationPerToken ==
    [][(last'.op = "logout" /\ last'.resp.status = 200)
        => \A t \in (Presented \cup IssuedTokens') \ {last'.token} :
              get_current_user(t, token_blacklist', fake_users_db', now')
                  = get_current_user(t, token_blacklist, fake_users_db, now)
      ]_vars

\* C19 witness: POST /logout succeeded with one access token while another
\* access token of the same subject was valid, and that one is still
\* accepted.
C19_Witness ==
    /\ last.op = "logout"
    /\ last.resp.status = 200
    /\ \E t \in IssuedBy("create_access_token") \ {last.token} :
          /\ t.sub = last.token.sub
          /\ get_current_user(t, token_blacklist, fake_users_db, now).status = 200

\* C20: the Revoked outcome is given only to an access token with which
\* POST /logout has succeeded: a response of kind Revoked is an answer of an
\* access-token endpoint to such a token, no issued token that was never
\* logged out is refused as revoked by get_current_user, and POST /refresh
\* never answers Revoked.
C20_RevokedOnlyAfterLogout ==
    /\ last.resp.kind = "Revoked"
          => /\ last.op \in AccessOps
             /\ last.token \in loggedOut
             /\ last.token.type = "access"
    /\ \A t \in IssuedTokens \ loggedOut :
          get_current_user(t, token_blacklist, fake_users_db, now).kind # "Revoked"
    /\ \A t \in loggedOut : t \in IssuedBy("create_access_token")

\* C20 witness: after a logout, an access-token endpoint answered a request
\* made with an issued access token that was never logged out, and a refresh
\* token was used on /refresh; neither was refused as revoked.
C20_Witness ==
    /\ loggedOut # {}
    /\ \/ /\ last.op \in AccessOps
          /\ last.token \in IssuedBy("create_access_token") \ loggedOut
       \/ /\ last.op = "refresh"
          /\ last.token \in IssuedBy("create_refresh_token")
    /\ last.resp.kind # "Revoked"
    /\ last.resp.status = 200

\* the user table with every disabled flag cleared
Enabled(db) == WithDisabled(db, {})

\* what /login answers on a table with every flag cleared: is the user
\* authenticated, and the two tokens
LoginOnEnabled(username, password, t) ==
    LET user == authenticate_user(Enabled(fake_users_db), username, password) IN
    [ok |-> user # None,
     access_token |-> IF user = None THEN NoToken
                      ELSE create_access_token(user,
                               timedelta_minutes(ACCESS_TOKEN_EXPIRE_MINUTES), t),
     refresh_token |-> IF user = None THEN NoToken
                       ELSE create_refresh_token(user,
                               timedelta_days(REFRESH_TOKEN_EXPIRE_DAYS), t)]

\* what an access-token endpoint's dependency answers on a table with every
\* flag cleared
VerifyOnEnabled(op, token, t) ==
    LET current == get_current_user(token, token_blacklist,
                                    Enabled(fake_users_db), t)
    IN IF op = "admin-only" THEN require_admin(current) ELSE current

\* /login is indifferent to the disabled flags
LoginIgnoresDisabled ==
    last.op = "login"
    => LET e == LoginOnEnabled(last.username, last.password, last.at) IN
       /\ (last.resp.status = 200) <=> e.ok
       /\ (last.resp.status # 200) => last.resp.status = 401
       /\ last.resp.access_token = e.access_token
       /\ last.resp.refresh_token = e.refresh_token

UngatedOps == {"me", "users", "logout"}

C24_SessionBounded ==
    /\ Cardinality(IssuedBy("create_refresh_token")) <= 1
    /\ \A r \in IssuedBy("create_refresh_token") :
          LET T0 == r.exp - REFRESH_TOKEN_EXPIRE_DAYS * 86400
              refreshTtl == REFRESH_TOKEN_EXPIRE_DAYS * 86400
              accessTtl == ACCESS_TOKEN_EXPIRE_MINUTES * 60
          IN /\ \A a \in IssuedBy("create_access_token") :
                   a.exp <= T0 + refreshTtl + accessTtl
             /\ (last.op \in AccessOps /\ last.resp.status # 401)
                   => last.at <= T0 + refreshTtl + accessTtl
             /\ (last.op = "refresh" /\ last.at > T0 + refreshTtl)
                   => last.resp.status = 401
             /\ (last.op = "refresh" /\ last.resp.status = 200)
                   => /\ last.token = r
                      /\ last.resp.refresh_token = r
                      /\ last.resp.access_token.exp = last.at + accessTtl

\* C24 witness: GET /me succeeded at the last second of the session, 7 days
\* and 15 minutes after the login, with an access token that /refresh minted
\* in the last second of the refresh token's life.
C24_Witness ==
    /\ last.op = "me"
    /\ last.resp.status = 200
    /\ \E r \in IssuedBy("create_refresh_token") :
          /\ last.at = r.exp + ACCESS_TOKEN_EXPIRE_MINUTES * 60
          /\ last.token.exp = last.at
    /\ \E m \in issued : m.op = "refresh" /\ m.token = last.token

\* the tokens /login has minted
LoginTokens == {m.token : m \in {i \in issued : i.op = "login"}}

\* the access tokens /refresh has minted for the subject of refresh token r
\* within the life of r
RefreshedFrom(r) ==
    {m.token : m \in {i \in issued :
        /\ i.op = "refresh"
        /\ i.token.sub = r.sub
        /\ i.token.exp - ACCESS_TOKEN_EXPIRE_MINUTES * 60 <= r.exp
        /\ i.token.exp - ACCESS_TOKEN_EXPIRE_MINUTES * 60
              >= r.exp - REFRESH_TOKEN_EXPIRE_DAYS * 86400}}

\* the honestly issued tokens: those of /login and those /refresh minted
\* from a refresh token of /login
HonestTokens ==
    LoginTokens \cup
    UNION {RefreshedFrom(r) : r \in {t \in LoginTokens : t.type = "refresh"}}

\* C25: the user table is never changed by an endpoint, every token minted
\* by /login or by /refresh from a refresh token of /login carries a subject
\* that is a key of the user table, and verification of such a token never
\* ends in "User not found" (the tokens issued so far are examined between
\* requests, the request being answered in every state).
C25_HonestSubjectsExist ==
    /\ fake_users_db = fake_users_db_seed
    /\ last = Idle
          => \A t \in HonestTokens :
                /\ t.sub \in DOMAIN fake_users_db
                /\ get_current_user(t, token_blacklist, fake_users_db, now).kind
                      # "UnknownSubject"
    /\ (last.op = "login" /\ last.resp.status = 200)
          => /\ last.resp.access_token.sub \in DOMAIN fake_users_db
             /\ last.resp.refresh_token.sub \in DOMAIN fake_users_db
    /\ (last.op = "refresh" /\ last.token \in LoginTokens /\ last.resp.status = 200)
          => last.resp.access_token.sub \in DOMAIN fake_users_db
    /\ (last.op \in AccessOps /\ last.token \in HonestTokens)
          => /\ last.resp.kind # "UnknownSubject"
             /\ last.resp.detail # "User not found"

\* C25 witness: GET /me accepted an access token that /refresh had minted
\* from a refresh token of /login, at a later time than the login.
C25_Witness ==
    /\ last.op = "me"
    /\ last.token \in HonestTokens \ LoginTokens
    /\ last.resp.status = 200
    /\ last.resp.user.username \in DOMAIN fake_users_db
    /\ fake_users_db = fake_users_db_seed

====
